---- MODULE Spec2Model ----
(***************************************************************************)
(* Model of iyinusa/jobha.                                                 *)
(*                                                                         *)
(*  Spec, FairSpec : one job-search stream session                         *)
(*      routers/cv.py  stream_jobs_search.job_search_generator,            *)
(*                     job_callback                                        *)
(*      services/ai/perplexity_api.py  PerplexityAPI.search_jobs           *)
(*                     (streaming branch)                                  *)
(*  SpecSections    : services/document_parser/section_extractor.py        *)
(*                     extract_sections on bounded texts                   *)
(*  SpecScores      : services/ai/perplexity_api.py                        *)
(*                     _try_extract_jobs_from_stream,                      *)
(*                     _calculate_match_scores, get_match_quality_label    *)
(*  SpecUpload      : routers/cv.py  upload_cv and the text extraction of  *)
(*                     services/document_parser                            *)
(*  SpecAnalysis    : services/ai/perplexity_api.py  analyze_cv,           *)
(*                     _extract_json_from_text, _create_fallback_analysis, *)
(*                     generate_search_keywords                            *)
(*  SpecStore       : services/database/json_db.py  JsonDatabase, two      *)
(*                     callers whose reads and writes interleave           *)
(*                                                                         *)
(* The session starts after the three validation early returns of the      *)
(* generator (document, analysis, keywords) have been passed.              *)
(***************************************************************************)
EXTENDS Integers, Sequences, FiniteSets, TLC

(***************************************************************************)
(* Program constants.                                                      *)
(***************************************************************************)
overall_timeout == 60

PullTimeout == 3

SufficientCount == 25

\* section_extractor.py:153: lines[:10]
FirstLines == 10

(***************************************************************************)
(* Bounds of the model.                                                    *)
(***************************************************************************)
\* distinct postings the provider delivers in one session
MaxJobs == 26

\* postings handed to the callback and not yet pulled by the generator
MaxQueue == 2

\* new postings in one parsed chunk
MaxBatch == 2

\* only the postings numbered 1..MaxDupId are delivered more than once
MaxDupId == 2

\* lines of a text given to extract_sections
MaxLines == 4

\* lines of the long texts given to extract_sections (more than FirstLines)
MaxLongLines == 11

\* keywords of the document analysis given to search_jobs
MaxKeywords == 7

\* documents in the store
MaxDocuments == 2

(***************************************************************************)
(* Postings.  The n-th distinct posting of the provider; consecutive       *)
(* postings share a title and differ in the company.                       *)
(***************************************************************************)
Posting(n) == [title |-> (n + 1) \div 2, company |-> n % 2, id |-> n]

SameJob_never(j, job) == FALSE

\* perplexity_api.py:636-637, 661-662: the comparison used against all_jobs
SameJob(j, job) == j.title = job.title /\ j.company = job.company

InAllJobs(job, all) == \E i \in 1..Len(all) : SameJob(all[i], job)

\* perplexity_api.py:633-639 (and 658-666): the postings of a parsed batch
\* that are not yet in all_jobs, all_jobs growing inside the loop
RECURSIVE NewJobsBatch(_, _)
NewJobsBatch(jobs, all) ==
    IF jobs = <<>> THEN <<>>
    ELSE IF InAllJobs(Head(jobs), all)
         THEN NewJobsBatch(Tail(jobs), all)
         ELSE <<Head(jobs)>> \o NewJobsBatch(Tail(jobs), Append(all, Head(jobs)))

SeqCount(s, x) == Cardinality({i \in 1..Len(s) : s[i] = x})

VARIABLES
    ctx,             \* where search_jobs_async runs the callback: "loop" | "thread"
    pc,              \* suspension point of job_search_generator
    now,             \* wall clock, seconds
    job_queue,       \* asyncio.Queue of postings
    pending,         \* job_queue.put coroutines scheduled on the loop, not yet run
    search_complete, \* asyncio.Event
    search_error,    \* nonlocal search_error: "none" | "provider" | "callback"
    jobs_found,
    start_time,
    spc,             \* position of search_jobs
    all_jobs,        \* search_jobs: all_jobs
    sj_error,        \* search_jobs: its local search_error
    out,             \* what the client has received so far (summary of the stream)
    emitted,         \* the postings of the job events, in order
    enq,             \* the postings put on job_queue, in order
    twice,           \* ids of postings the provider delivered at least twice
    hist             \* what happened in the session (provider error, late callbacks)

streamVars == <<ctx, pc, now, job_queue, pending, search_complete, search_error,
                jobs_found, start_time, spc, all_jobs, sj_error,
                out, emitted, enq, twice, hist>>

VARIABLES
    phase,           \* "input" | "done"
    text,            \* lines of the text (text.split('\n'))
    sections         \* result of extract_sections

sectionVars == <<phase, text, sections>>

VARIABLES
    sphase,          \* "off" | "raw" | "parsed" | "scored" | "handed" | "label" | "labelled"
    keywords,        \* search_jobs: keywords, the first one the primary keyword
    chunk_jobs,      \* the postings of one parsed chunk
    handed,          \* the postings given to the callback and to save_document_jobs
    events,          \* the job events the generator built from them
    score_in,        \* argument of a call of get_match_quality_label
    label            \* its result

scoreVars == <<sphase, keywords, chunk_jobs, handed, events, score_in, label>>

VARIABLES
    uphase,          \* "off" | "serving"
    documents,       \* db: the documents
    request,         \* the last call (upload or extract_text): the file, skip_parsing
    response,        \* the response to the last upload
    extracted        \* what the last call of extract_text returned or raised

uploadVars == <<uphase, documents, request, response, extracted>>

VARIABLES
    aphase,          \* "off" | "ready" | "done"
    api_key,         \* PerplexityAPI.api_key is set
    cv_content,      \* argument of analyze_cv
    replies,         \* what requests.post does: first call, second call
    analysis         \* what analyze_cv returned

analysisVars == <<aphase, api_key, cv_content, replies, analysis>>

VARIABLES
    db_file,         \* data/db.json: whether it exists, the collection in it
    temp_file,       \* data/db.tmp
    callers,         \* the callers of the store's operations
    last_read,       \* what the last reader was given: "collection" | "default"
    write_error,     \* an open() of the temp file has failed
    first_db         \* the collection in db.json before the first call

storeVars == <<db_file, temp_file, callers, last_read, write_error, first_db>>

\* the variables of the analysis and of the store
laterVars == <<analysisVars, storeVars>>

\* the variables the store's operations leave alone
nonStoreVars == <<streamVars, sectionVars, scoreVars, uploadVars, analysisVars>>

\* the variables a stream session leaves alone
otherVars == <<sectionVars, scoreVars, uploadVars, laterVars>>

vars == <<streamVars, sectionVars, scoreVars, uploadVars, laterVars>>


(***************************************************************************)
(* The stream as the client sees it.  Keepalive events are not counted,    *)
(* so the summary stays finite however long the session runs.              *)
(***************************************************************************)
NoOutput ==
    [first |-> "none", second |-> "none", last |-> "none",
     started |-> 0, sufficient |-> 0, timeouts |-> 0, finals |-> 0,
     status |-> "none", total |-> 0, late |-> FALSE]

FinalKinds == {"completed", "error"}

\* one `yield f"data: ..."` of the generator
Emit(o, kind) ==
    [o EXCEPT !.first  = IF o.first = "none" THEN kind ELSE @,
              !.second = IF o.first # "none" /\ o.second = "none" THEN kind ELSE @,
              !.last   = kind,
              !.started    = IF kind = "started" THEN @ + 1 ELSE @,
              !.sufficient = IF kind = "sufficient" THEN @ + 1 ELSE @,
              !.timeouts   = IF kind = "timeout" THEN @ + 1 ELSE @,
              !.finals     = IF kind \in FinalKinds THEN @ + 1 ELSE @,
              !.status     = IF kind \in FinalKinds THEN kind ELSE @,
              !.late       = @ \/ o.finals > 0]

(***************************************************************************)
(* job_callback (routers/cv.py:636-673).                                   *)
(*                                                                         *)
(* On the event loop: get_running_loop() succeeds and every posting is     *)
(* scheduled with run_coroutine_threadsafe(job_queue.put(job), loop).      *)
(* To signal completion the code evaluates search_complete.set(), which    *)
(* sets the event at once and returns None, and hands None to              *)
(* run_coroutine_threadsafe: TypeError, not caught by `except              *)
(* RuntimeError`, caught by `except Exception`, which overwrites           *)
(* search_error with "Callback error: ...".                                *)
(*                                                                         *)
(* On a worker thread: get_running_loop() raises RuntimeError, the         *)
(* fallback asyncio.create_task raises RuntimeError too (no running        *)
(* loop), so the first posting already lands in `except Exception`:        *)
(* search_error is set, search_complete.set() is evaluated, nothing is     *)
(* queued.                                                                 *)
(***************************************************************************)
CallbackFails(jobs, is_complete, error) ==
    \/ is_complete
    \/ error # "none"
    \/ (ctx = "thread" /\ jobs # <<>>)

CallbackQueued(jobs) == IF ctx = "loop" THEN jobs ELSE <<>>

CallbackError(jobs, is_complete, error) ==
    IF CallbackFails(jobs, is_complete, error) THEN "callback" ELSE search_error

LoopStopped == pc \in {"timeout", "final", "done"}

job_callback(jobs, is_complete, error) ==
    /\ pending' = pending \o CallbackQueued(jobs)
    /\ search_complete' = (search_complete \/ CallbackFails(jobs, is_complete, error))
    /\ search_error' = CallbackError(jobs, is_complete, error)
    /\ hist' = [hist EXCEPT
                  !.providerError = @ \/ (error # "none" /\ out.finals = 0),
                  !.lateJobs = @ \/ (LoopStopped /\ CallbackQueued(jobs) # <<>>)]

NoCallback == UNCHANGED <<pending, search_complete, search_error, hist>>


(***************************************************************************)
(* PerplexityAPI.search_jobs, streaming branch (callback given).           *)
(***************************************************************************)
NextId == Len(all_jobs) + 1

Fresh(k) == [i \in 1..k |-> Posting(Len(all_jobs) + i)]

\* postings already seen that the provider's text contains again: every
\* chunk re-parses the whole of partial_data (perplexity_api.py:623-626)
Old == SelectSeq(all_jobs, LAMBDA j : j.id <= MaxDupId)

\* what _try_extract_jobs_from_stream may return for a chunk
RawBatches ==
    {Old \o Fresh(k) : k \in 0..MaxBatch} \cup {Fresh(k) \o Old : k \in 0..MaxBatch}
    \cup (IF NextId <= MaxDupId THEN {<<Posting(NextId), Posting(NextId)>>} ELSE {})

DeliveredTwice(raw) ==
    {j.id : j \in {raw[i] : i \in 1..Len(raw)}} \cap
    {id \in 1..MaxJobs : \/ \E i \in 1..Len(all_jobs) : all_jobs[i].id = id
                         \/ SeqCount(raw, Posting(id)) >= 2}

Fits(new) ==
    /\ Len(all_jobs) + Len(new) <= MaxJobs
    /\ \/ ctx = "thread"
       \/ Len(pending) + Len(job_queue) + Len(new) <= MaxQueue

\* perplexity_api.py:441-445: no API key, reported through the callback
SearchNoApiKey ==
    /\ spc = "begin"
    /\ job_callback(<<>>, TRUE, "provider")
    /\ spc' = "done"
    /\ UNCHANGED <<otherVars, ctx, pc, now, job_queue, jobs_found, start_time,
                   all_jobs, sj_error, out, emitted, enq, twice>>

\* perplexity_api.py:453-591: the request is made
SearchPost ==
    /\ spc = "begin"
    /\ spc' = "post"
    /\ NoCallback
    /\ UNCHANGED <<otherVars, ctx, pc, now, job_queue, jobs_found, start_time,
                   all_jobs, sj_error, out, emitted, enq, twice>>

\* perplexity_api.py:592-597: the response is not ok
SearchPostNotOk ==
    /\ spc = "post"
    /\ job_callback(<<>>, TRUE, "provider")
    /\ spc' = "done"
    /\ UNCHANGED <<otherVars, ctx, pc, now, job_queue, jobs_found, start_time,
                   all_jobs, sj_error, out, emitted, enq, twice>>

\* perplexity_api.py:600: the response is ok, its lines are read
SearchPostOk ==
    /\ spc = "post"
    /\ spc' = "stream"
    /\ NoCallback
    /\ UNCHANGED <<otherVars, ctx, pc, now, job_queue, jobs_found, start_time,
                   all_jobs, sj_error, out, emitted, enq, twice>>

\* perplexity_api.py:613-646: one chunk from which postings are parsed
SearchChunk ==
    /\ spc = "stream"
    /\ \E raw \in RawBatches \ {<<>>} :
         LET new_jobs_batch == NewJobsBatch(raw, all_jobs) IN
           /\ Fits(new_jobs_batch)
           /\ all_jobs' = all_jobs \o new_jobs_batch
           /\ twice' = twice \cup DeliveredTwice(raw)
           /\ IF new_jobs_batch # <<>>
              THEN job_callback(new_jobs_batch, FALSE, "none")
              ELSE NoCallback
    /\ UNCHANGED <<otherVars, ctx, pc, now, job_queue, jobs_found, start_time,
                   spc, sj_error, out, emitted, enq>>

\* perplexity_api.py:609-611, 653-654: [DONE] or the end of the response
SearchStreamEnd ==
    /\ spc = "stream"
    /\ spc' = "final"
    /\ NoCallback
    /\ UNCHANGED <<otherVars, ctx, pc, now, job_queue, jobs_found, start_time,
                   all_jobs, sj_error, out, emitted, enq, twice>>

\* perplexity_api.py:656-673: the forced extraction after the stream
SearchFinalJobs ==
    /\ spc = "final"
    /\ \E raw \in RawBatches :
         LET new_final_jobs == NewJobsBatch(raw, all_jobs) IN
           /\ Fits(new_final_jobs)
           /\ all_jobs' = all_jobs \o new_final_jobs
           /\ twice' = twice \cup DeliveredTwice(raw)
           /\ IF new_final_jobs # <<>>
              THEN job_callback(new_final_jobs, FALSE, "none")
              ELSE NoCallback
    /\ spc' = "complete"
    /\ UNCHANGED <<otherVars, ctx, pc, now, job_queue, jobs_found, start_time,
                   sj_error, out, emitted, enq>>

\* perplexity_api.py:675-678: requests raises while posting or reading
SearchRequestException ==
    /\ spc \in {"post", "stream"}
    /\ sj_error' = "provider"
    /\ spc' = "complete"
    /\ NoCallback
    /\ UNCHANGED <<otherVars, ctx, pc, now, job_queue, jobs_found, start_time,
                   all_jobs, out, emitted, enq, twice>>

\* perplexity_api.py:680-692: save, then the completion callback
SearchComplete ==
    /\ spc = "complete"
    /\ job_callback(<<>>, TRUE, sj_error)
    /\ spc' = "done"
    /\ UNCHANGED <<otherVars, ctx, pc, now, job_queue, jobs_found, start_time,
                   all_jobs, sj_error, out, emitted, enq, twice>>

\* perplexity_api.py:693-700: any other exception of the search
SearchException ==
    /\ spc \in {"post", "stream", "final", "complete"}
    /\ job_callback(<<>>, TRUE, "provider")
    /\ spc' = "done"
    /\ UNCHANGED <<otherVars, ctx, pc, now, job_queue, jobs_found, start_time,
                   all_jobs, sj_error, out, emitted, enq, twice>>

\* the event loop runs the job_queue.put coroutines the callback scheduled
\* (routers/cv.py:645); those of one turn run before the generator resumes
LoopRunsPuts ==
    /\ pending # <<>>
    /\ job_queue' = job_queue \o pending
    /\ enq' = enq \o pending
    /\ pending' = <<>>
    /\ UNCHANGED <<otherVars, ctx, pc, now, search_complete, search_error, jobs_found,
                   start_time, spc, all_jobs, sj_error, out,
                   emitted, twice, hist>>

SearchNext ==
    \/ SearchNoApiKey
    \/ SearchPost
    \/ SearchPostNotOk
    \/ SearchPostOk
    \/ SearchChunk
    \/ SearchStreamEnd
    \/ SearchFinalJobs
    \/ SearchRequestException
    \/ SearchComplete
    \/ SearchException
    \/ LoopRunsPuts


(***************************************************************************)
(* job_search_generator (routers/cv.py:570-803), one action per stretch    *)
(* of code between two suspension points (a yield or the awaited pull).    *)
(***************************************************************************)
\* routers/cv.py:785-794: the completion message
FinalStatus(err) == IF err # "none" THEN "error" ELSE "completed"

Finalize_onlyWithJobs(o, n) ==
    /\ out' = IF search_error = "none" /\ n = 0
              THEN o
              ELSE [Emit(o, FinalStatus(search_error)) EXCEPT !.total = n]
    /\ pc' = "final"

\* routers/cv.py:784-794, n the value of jobs_found
Finalize(o, n) ==
    /\ out' = [Emit(o, FinalStatus(search_error)) EXCEPT !.total = n]
    /\ pc' = "final"

TimedOut_never(st) == FALSE

\* routers/cv.py:700-711: the loop condition and the overall timeout check
TimedOut(st) == now - st > overall_timeout

LoopTop(o, st) ==
    IF search_complete
    THEN Finalize(o, jobs_found)
    ELSE IF TimedOut(st)
         THEN out' = Emit(o, "timeout") /\ pc' = "timeout"
         ELSE out' = o /\ pc' = "wait"

GenStart_silent ==
    /\ pc = "start"
    /\ spc' = "begin"
    /\ pc' = "started"
    /\ UNCHANGED <<otherVars, ctx, now, job_queue, pending, search_complete, search_error,
                   jobs_found, start_time, all_jobs, sj_error, out,
                   emitted, enq, twice, hist>>

\* routers/cv.py:676-686: the search task is created, `started` is yielded
GenStart ==
    /\ pc = "start"
    /\ spc' = "begin"
    /\ out' = Emit(out, "started")
    /\ pc' = "started"
    /\ UNCHANGED <<otherVars, ctx, now, job_queue, pending, search_complete, search_error,
                   jobs_found, start_time, all_jobs, sj_error,
                   emitted, enq, twice, hist>>

\* routers/cv.py:689: the websites message
GenSearching ==
    /\ pc = "started"
    /\ out' = Emit(out, "searching")
    /\ pc' = "searching"
    /\ UNCHANGED <<otherVars, ctx, now, job_queue, pending, search_complete, search_error,
                   jobs_found, start_time, spc, all_jobs, sj_error,
                   emitted, enq, twice, hist>>

\* routers/cv.py:692-700: counters, then the first loop test
GenEnterLoop ==
    /\ pc = "searching"
    /\ jobs_found' = 0
    /\ start_time' = now
    /\ LoopTop(out, now)
    /\ UNCHANGED <<otherVars, ctx, now, job_queue, pending, search_complete, search_error,
                   spc, all_jobs, sj_error, emitted, enq, twice, hist>>

QueueGet_last(q) == q[Len(q)]

\* asyncio.Queue.get: the oldest posting
QueueGet(q) == Head(q)

QueueRest(q) ==
    LET i == CHOOSE k \in 1..Len(q) : q[k] = QueueGet(q) /\ \A m \in 1..(k-1) : q[m] # q[k]
    IN  [m \in 1..(Len(q) - 1) |-> IF m < i THEN q[m] ELSE q[m + 1]]

\* routers/cv.py:715-744: a posting is pulled within the 3 s and yielded
GenJob ==
    /\ pc = "wait"
    /\ job_queue # <<>>
    /\ \E d \in {0, PullTimeout} : now' = now + d
    /\ job_queue' = QueueRest(job_queue)
    /\ jobs_found' = jobs_found + 1
    /\ emitted' = Append(emitted, QueueGet(job_queue))
    /\ out' = Emit(out, "job")
    /\ pc' = "job"
    /\ UNCHANGED <<otherVars, ctx, pending, search_complete, search_error, start_time, spc,
                   all_jobs, sj_error, enq, twice, hist>>

\* routers/cv.py:716-726, 780-794: the pulled posting raises while its event is
\* built (a url that is not a string has no lower()); `except Exception`
\* breaks out of the loop, the count already raised, no job event yielded
GenJobRaises ==
    /\ pc = "wait"
    /\ job_queue # <<>>
    /\ \E d \in {0, PullTimeout} : now' = now + d
    /\ job_queue' = QueueRest(job_queue)
    /\ jobs_found' = jobs_found + 1
    /\ Finalize(out, jobs_found')
    /\ UNCHANGED <<otherVars, ctx, pending, search_complete, search_error, start_time,
                   spc, all_jobs, sj_error, emitted, enq, twice, hist>>

IsSufficient_atleast(n) == n >= SufficientCount

\* routers/cv.py:750
IsSufficient(n) == n = SufficientCount

\* routers/cv.py:746-755, then back to the loop test
GenAfterJob ==
    /\ pc = "job"
    /\ IF IsSufficient(jobs_found)
       THEN out' = Emit(out, "sufficient") /\ pc' = "sufficient"
       ELSE LoopTop(out, start_time)
    /\ UNCHANGED <<otherVars, ctx, now, job_queue, pending, search_complete, search_error,
                   jobs_found, start_time, spc, all_jobs, sj_error,
                   emitted, enq, twice, hist>>

\* routers/cv.py:756-779: the pull timed out, a keepalive is yielded.  Both
\* branches yield a `searching` event; last_job_time only picks its text.
GenPullTimeout ==
    /\ pc = "wait"
    /\ job_queue = <<>>
    /\ now' = now + PullTimeout
    /\ out' = Emit(out, "searching")
    /\ pc' = "progress"
    /\ UNCHANGED <<otherVars, ctx, job_queue, pending, search_complete, search_error,
                   jobs_found, start_time, spc, all_jobs, sj_error,
                   emitted, enq, twice, hist>>

\* after the `sufficient` or the keepalive yield: back to the loop test
GenResume ==
    /\ pc \in {"sufficient", "progress"}
    /\ LoopTop(out, start_time)
    /\ UNCHANGED <<otherVars, ctx, now, job_queue, pending, search_complete, search_error,
                   jobs_found, start_time, spc, all_jobs, sj_error,
                   emitted, enq, twice, hist>>

\* routers/cv.py:711: break after the `timeout` yield, then the completion message
GenAfterTimeout ==
    /\ pc = "timeout"
    /\ Finalize(out, jobs_found)
    /\ UNCHANGED <<otherVars, ctx, now, job_queue, pending, search_complete, search_error,
                   jobs_found, start_time, spc, all_jobs, sj_error,
                   emitted, enq, twice, hist>>

GenReturn_loops ==
    /\ pc = "final"
    /\ pc' = "wait"
    /\ UNCHANGED <<otherVars, ctx, now, job_queue, pending, search_complete, search_error,
                   jobs_found, start_time, spc, all_jobs, sj_error,
                   out, emitted, enq, twice, hist>>

\* after the completion message the generator returns
GenReturn ==
    /\ pc = "final"
    /\ pc' = "done"
    /\ UNCHANGED <<otherVars, ctx, now, job_queue, pending, search_complete, search_error,
                   jobs_found, start_time, spc, all_jobs, sj_error,
                   out, emitted, enq, twice, hist>>

GenNext ==
    \/ GenStart
    \/ GenSearching
    \/ GenEnterLoop
    \/ GenJob
    \/ GenJobRaises
    \/ GenAfterJob
    \/ GenPullTimeout
    \/ GenResume
    \/ GenAfterTimeout
    \/ GenReturn

(***************************************************************************)
(* services/document_parser/section_extractor.py                           *)
(*                                                                         *)
(* A line is the stripped text together with what the code reads from it:  *)
(* len(line) < 30, line.isupper(), line[0].isupper(), line.endswith(':')   *)
(* and the sections one of whose patterns occurs in line.lower().          *)
(***************************************************************************)
\* SECTION_PATTERNS, in the order of the dict
SectionNames ==
    <<"contact", "summary", "experience", "education", "skills",
      "certifications", "languages", "projects", "awards", "references">>

Line(txt, short, upper, cap, colon, kw) ==
    [txt |-> txt, short |-> short, upper |-> upper, cap |-> cap,
     colon |-> colon, kw |-> kw]

Blank == Line("", TRUE, FALSE, FALSE, FALSE, {})

Lines ==
    { Blank,
      Line("Jane Doe", TRUE, FALSE, TRUE, FALSE, {}),
      Line("jane@x.com", TRUE, FALSE, FALSE, FALSE, {}),
      Line("BSc Computer Science", TRUE, FALSE, TRUE, FALSE, {}),
      Line("EDUCATION:", TRUE, TRUE, TRUE, TRUE, {"education"}),
      Line("Education", TRUE, FALSE, TRUE, FALSE, {"education"}),
      Line("Skills", TRUE, FALSE, TRUE, FALSE, {"skills"}),
      Line("NOTES:", TRUE, TRUE, TRUE, TRUE, {}) }

\* the CV of the scenario, one item per line
ScenarioText ==
    << Line("Jane Doe", TRUE, FALSE, TRUE, FALSE, {}),
       Line("jane@x.com", TRUE, FALSE, FALSE, FALSE, {}),
       Line("EXPERIENCE:", TRUE, TRUE, TRUE, TRUE, {"experience"}),
       Line("Senior Engineer at Acme", TRUE, FALSE, TRUE, FALSE, {}),
       Line("EDUCATION:", TRUE, TRUE, TRUE, TRUE, {"education"}),
       Line("BSc Computer Science", TRUE, FALSE, TRUE, FALSE, {}) >>

\* a CV whose education header occurs in title case and, twice, in capitals
RepeatedHeaderText ==
    << Line("Education", TRUE, FALSE, TRUE, FALSE, {"education"}),
       Line("Jane Doe", TRUE, FALSE, TRUE, FALSE, {}),
       Line("EDUCATION:", TRUE, TRUE, TRUE, TRUE, {"education"}),
       Line("BSc Computer Science", TRUE, FALSE, TRUE, FALSE, {}),
       Line("EDUCATION:", TRUE, TRUE, TRUE, TRUE, {"education"}) >>

\* `if not line` after line.strip()
IsBlank(line) == line.txt = ""

score_line_as_header_noPattern(line) ==
      (IF line.short THEN 1 ELSE 0)
    + (IF line.upper THEN 2 ELSE IF line.cap THEN 1 ELSE 0)
    + (IF line.colon THEN 2 ELSE 0)

\* _score_line_as_header
score_line_as_header(line) ==
      (IF line.short THEN 1 ELSE 0)
    + (IF line.upper THEN 2 ELSE IF line.cap THEN 1 ELSE 0)
    + (IF line.colon THEN 2 ELSE 0)
    + (IF line.kw # {} THEN 3 ELSE 0)

\* the first section of SECTION_PATTERNS one of whose patterns is in the line
MatchedSection(line) ==
    SectionNames[CHOOSE i \in 1..Len(SectionNames) :
                   /\ SectionNames[i] \in line.kw
                   /\ \A j \in 1..(i - 1) : SectionNames[j] \notin line.kw]

\* section_extractor.py:100-104
SectionName(line) == IF line.kw = {} THEN "other" ELSE MatchedSection(line)

\* section_extractor.py:77-91: the lines scoring at least 3, by index
RECURSIVE PotentialHeaders(_, _)
PotentialHeaders(lines, i) ==
    IF i > Len(lines) THEN <<>>
    ELSE IF ~IsBlank(lines[i]) /\ score_line_as_header(lines[i]) >= 3
         THEN <<[index |-> i, line |-> lines[i], score |-> score_line_as_header(lines[i])]>>
              \o PotentialHeaders(lines, i + 1)
         ELSE PotentialHeaders(lines, i + 1)

\* list.sort(key=score, reverse=True): stable, highest score first
RECURSIVE InsertByScore(_, _)
InsertByScore(h, sorted) ==
    IF sorted = <<>> THEN <<h>>
    ELSE IF Head(sorted).score >= h.score
         THEN <<Head(sorted)>> \o InsertByScore(h, Tail(sorted))
         ELSE <<h>> \o sorted

RECURSIVE SortByScore(_)
SortByScore(hs) ==
    IF hs = <<>> THEN <<>>
    ELSE InsertByScore(hs[Len(hs)], SortByScore(SubSeq(hs, 1, Len(hs) - 1)))

SortHeaders_reversed(hs) == [i \in 1..Len(hs) |-> SortByScore(hs)[Len(hs) - i + 1]]

\* section_extractor.py:94
SortHeaders(hs) == SortByScore(hs)

\* [line.strip() for line in lines[a:b] if line.strip()], positions a..b-1
RECURSIVE Content(_, _, _)
Content(lines, a, b) ==
    IF a >= b \/ a > Len(lines) THEN <<>>
    ELSE (IF IsBlank(lines[a]) THEN <<>> ELSE <<lines[a].txt>>)
         \o Content(lines, a + 1, b)

\* sections[name].extend(content), the key created when missing
Extend(secs, name, content) ==
    [k \in DOMAIN secs \cup {name} |->
        IF k = name
        THEN (IF k \in DOMAIN secs THEN secs[k] ELSE <<>>) \o content
        ELSE secs[k]]

\* section_extractor.py:98-117: one section per header, in the sorted order
RECURSIVE HeaderSections(_, _, _, _)
HeaderSections(lines, hs, i, secs) ==
    IF i > Len(hs) THEN secs
    ELSE LET start_idx == hs[i].index + 1
             end_idx == IF i < Len(hs) THEN hs[i + 1].index ELSE Len(lines) + 1
         IN  HeaderSections(lines, hs, i + 1,
                Extend(secs, SectionName(hs[i].line), Content(lines, start_idx, end_idx)))

MinIndex(hs) ==
    CHOOSE m \in {hs[i].index : i \in 1..Len(hs)} :
        \A i \in 1..Len(hs) : m <= hs[i].index

\* section_extractor.py:119-125: the lines before the first header
WithContact(lines, hs, secs) ==
    LET contact_lines == Content(lines, 1, MinIndex(hs))
    IN  IF contact_lines # <<>> THEN Extend(secs, "contact", contact_lines) ELSE secs

\* section_extractor.py:128-147: no header found
RECURSIVE SimpleSections(_, _, _, _)
SimpleSections(lines, i, current_section, secs) ==
    IF i > Len(lines) THEN secs
    ELSE IF IsBlank(lines[i]) THEN SimpleSections(lines, i + 1, current_section, secs)
    ELSE IF lines[i].kw # {}
         THEN SimpleSections(lines, i + 1, MatchedSection(lines[i]),
                             Extend(secs, MatchedSection(lines[i]), <<>>))
         ELSE SimpleSections(lines, i + 1, current_section,
                             Extend(secs, current_section, <<lines[i].txt>>))

\* section_extractor.py:150
HasMeaningfulSections(secs) == \E key \in DOMAIN secs : key # "other" /\ secs[key] # <<>>

\* section_extractor.py:149-155
PostCheck(lines, secs) ==
    LET contact_lines == Content(lines, 1, FirstLines + 1)
    IN  IF ~HasMeaningfulSections(secs) /\ contact_lines # <<>>
        THEN [k \in DOMAIN secs \cup {"contact"} |->
                 IF k = "contact" THEN contact_lines ELSE secs[k]]
        ELSE secs

EmptySections == [k \in {"other"} |-> <<>>]

\* section_extractor.py:74-147: the segmentation, before the post-check
Segment(lines) ==
    LET potential_headers == SortHeaders(PotentialHeaders(lines, 1))
    IN  IF potential_headers # <<>>
        THEN WithContact(lines, potential_headers,
               HeaderSections(lines, potential_headers, 1, EmptySections))
        ELSE SimpleSections(lines, 1, "other", EmptySections)

extract_sections(lines) == PostCheck(lines, Segment(lines))

\* the lines of doc at the positions of S, in the order of doc
RECURSIVE Pick(_, _, _)
Pick(doc, S, i) ==
    IF i > Len(doc) THEN <<>>
    ELSE (IF i \in S THEN <<doc[i]>> ELSE <<>>) \o Pick(doc, S, i + 1)

\* every text of at most MaxLines lines
ShortTexts == UNION {[1..n -> Lines] : n \in 0..MaxLines}

\* the two CVs and what is left of them when lines are removed
ScenarioTexts ==
    {Pick(ScenarioText, S, 1) : S \in SUBSET (1..Len(ScenarioText))}
    \cup {Pick(RepeatedHeaderText, S, 1) : S \in SUBSET (1..Len(RepeatedHeaderText))}

\* texts of more than FirstLines lines, some of them blank, without headers
LongTexts ==
    [1..MaxLongLines -> {Blank, Line("Jane Doe", TRUE, FALSE, TRUE, FALSE, {})}]

Texts == ShortTexts \cup ScenarioTexts \cup LongTexts

SectionsInit ==
    /\ phase = "input"
    /\ text \in Texts
    /\ sections = EmptySections

Extract ==
    /\ phase = "input"
    /\ sections' = extract_sections(text)
    /\ phase' = "done"
    /\ UNCHANGED <<text, streamVars, scoreVars, uploadVars, laterVars>>

(***************************************************************************)
(* Match scores.                                                           *)
(*   services/ai/perplexity_api.py  _try_extract_jobs_from_stream (the     *)
(*       match_score clean-up), _calculate_match_scores, search_jobs       *)
(*   routers/cv.py  job_search_generator (the job event),                  *)
(*       get_match_quality_label                                           *)
(*                                                                         *)
(* A Python value of a score is a record: an int, a float (its integer     *)
(* part, or inf / nan), a str (the number it spells, if any, and whether   *)
(* a '%' is attached), None, or the key being absent.                      *)
(***************************************************************************)
PyInt(n) == [t |-> "int", v |-> n]

PyFloat(kind, trunc) == [t |-> "float", kind |-> kind, v |-> trunc]

PyStr(numeric, n, pct) == [t |-> "str", numeric |-> numeric, v |-> n, pct |-> pct]

PyNone == [t |-> "none"]

Missing == [t |-> "missing"]

Ok(n) == [ok |-> TRUE, v |-> n]

Raised(exc) == [ok |-> FALSE, exc |-> exc]

\* int(x)
ToInt(x) ==
    CASE x.t = "int" -> Ok(x.v)
      [] x.t = "float" -> (IF x.kind = "finite" THEN Ok(x.v)
                           ELSE IF x.kind = "inf" THEN Raised("OverflowError")
                           ELSE Raised("ValueError"))
      [] x.t = "str" -> (IF x.numeric /\ ~x.pct THEN Ok(x.v) ELSE Raised("ValueError"))
      [] OTHER -> Raised("TypeError")

\* perplexity_api.py:739-747: job["match_score"] after the clean-up
CleanScore(x) ==
    CASE x.t = "missing" -> Missing
      [] x.t = "str" -> (IF x.numeric THEN PyInt(x.v) ELSE PyInt(0))
      [] x.t = "int" -> x
      [] OTHER -> PyInt(0)

\* perplexity_api.py:734-748, for every job of the parsed chunk
try_extract_jobs_from_stream(js) ==
    [i \in 1..Len(js) |-> [js[i] EXCEPT !.match_score = CleanScore(@)]]

\* perplexity_api.py:972: keywords that are non-empty strings
processed_keywords(kws) == SelectSeq(kws, LAMBDA k : k # "")

\* perplexity_api.py:997: the keywords found in the job text
matched_keywords(kws, job) == SelectSeq(processed_keywords(kws), LAMBDA k : k \in job.text)

\* perplexity_api.py:1001: the empty string is in every text
primary_keyword_match(primary, job) == primary = "" \/ primary \in job.text

Least(a, b) == IF a < b THEN a ELSE b

\* perplexity_api.py:1013: int(keyword_match_ratio * 30); the float product
\* truncates to the integer quotient for every 0 <= m <= n <= 2000
keyword_bonus(m, n) == IF n = 0 THEN 0 ELSE (30 * m) \div n

WeakMatch_inverted(m, pm) == m >= 3 /\ ~pm

\* perplexity_api.py:1019
WeakMatch(m, pm) == m < 3 /\ ~pm

\* perplexity_api.py:1023: keyword_match_ratio > 0.7
StrongMatch(m, n, pm) == pm /\ n > 0 /\ 10 * m > 7 * n

new_score_roundedBonus(kws, primary, job) ==
    LET m == Len(matched_keywords(kws, job))
        n == Len(processed_keywords(kws))
        pm == primary_keyword_match(primary, job)
        bonus == IF n = 0 THEN 0 ELSE (60 * m + n) \div (2 * n)
        capped == Least(100, (IF pm THEN 70 ELSE 50) + bonus)
        weak == IF WeakMatch(m, pm) THEN Least(capped, 60) ELSE capped
    IN  IF StrongMatch(m, n, pm) THEN Least(100, weak + 10) ELSE weak

\* perplexity_api.py:996-1024
new_score(kws, primary, job) ==
    LET m == Len(matched_keywords(kws, job))
        n == Len(processed_keywords(kws))
        pm == primary_keyword_match(primary, job)
        base_score == IF pm THEN 70 ELSE 50
        capped == Least(100, base_score + keyword_bonus(m, n))
        weak == IF WeakMatch(m, pm) THEN Least(capped, 60) ELSE capped
    IN  IF StrongMatch(m, n, pm) THEN Least(100, weak + 10) ELSE weak

\* perplexity_api.py:989-994: iterating job.get('requirements', []) raises
\* TypeError when the provider sent "requirements": null
ScoringRaises(job) == job.requirements = "none"

\* perplexity_api.py:974-1035: the loop over the jobs inside the try; an
\* exception ends it and leaves the remaining scores as they are
RECURSIVE ScoreFrom(_, _, _, _)
ScoreFrom(js, i, kws, primary) ==
    IF i > Len(js) THEN js
    ELSE IF ScoringRaises(js[i]) THEN js
    ELSE ScoreFrom([js EXCEPT ![i].match_score = PyInt(new_score(kws, primary, js[i]))],
                   i + 1, kws, primary)

\* perplexity_api.py:957-1035
calculate_match_scores(js, kws, primary) ==
    IF js = <<>> \/ kws = <<>> THEN js ELSE ScoreFrom(js, 1, kws, primary)

\* cv.py:808-821
get_match_quality_label(score) ==
    LET score_int == ToInt(score)
    IN  IF score_int.ok
        THEN (IF score_int.v >= 90 THEN "excellent"
              ELSE IF score_int.v >= 75 THEN "good"
              ELSE IF score_int.v >= 60 THEN "moderate"
              ELSE "low")
        ELSE IF score_int.exc \in {"ValueError", "TypeError"} THEN "unknown"
        ELSE score_int.exc

\* cv.py:729-731: job.get('match_score', 0), None replaced by 0
EventScore(job) ==
    IF job.match_score.t \in {"missing", "none"} THEN PyInt(0) ELSE job.match_score

\* cv.py:744: the job event
JobEvent(job) ==
    [job |-> job, match_score |-> EventScore(job),
     match_quality |-> get_match_quality_label(EventScore(job))]

\* the keywords of the document analysis
AllKeywords == <<"python", "docker", "react", "aws", "sql", "git", "linux", "go", "rust">>

KeywordLists ==
    {SubSeq(AllKeywords, 1, n) : n \in 1..MaxKeywords}
    \cup {<<"">> \o SubSeq(AllKeywords, 1, n) : n \in 0..1}

\* the keywords a job text contains: those numbered a..b
JobTexts == {{AllKeywords[i] : i \in a..b} : a \in 1..(MaxKeywords + 1), b \in 0..MaxKeywords}

\* what the provider may send as match_score
ProviderScores ==
    {Missing, PyNone, PyInt(85), PyInt(150), PyStr(TRUE, 90, TRUE),
     PyStr(FALSE, 0, FALSE), PyFloat("finite", 87)}

ProviderJobs ==
    [text : JobTexts, requirements : {"list", "missing", "none"}, match_score : ProviderScores]

\* a second posting of the same chunk
FollowUps ==
    {[text |-> {}, requirements |-> "list", match_score |-> PyInt(150)],
     [text |-> {"python", "docker"}, requirements |-> "list", match_score |-> Missing]}

\* a posting between two others of the same chunk
Between ==
    {[text |-> {}, requirements |-> r, match_score |-> PyInt(150)] : r \in {"list", "none"}}

\* the chunks of one, two and three postings
Chunks ==
    {<<p>> : p \in ProviderJobs}
        \cup {<<p, q>> : p \in ProviderJobs, q \in FollowUps}
        \cup {<<[q EXCEPT !.match_score = PyInt(85)], r, q>> : q \in FollowUps, r \in Between}

\* the scores get_match_quality_label may be called with
LabelScores ==
    {PyInt(n) : n \in {-1, 0, 59, 60, 74, 75, 89, 90, 100, 150}}
    \cup {PyFloat("finite", 74), PyFloat("finite", 89), PyFloat("inf", 0), PyFloat("nan", 0)}
    \cup {PyStr(TRUE, 90, FALSE), PyStr(TRUE, 90, TRUE), PyStr(FALSE, 0, FALSE), PyNone}

ScoresIdle ==
    /\ sphase = "off"
    /\ keywords = <<>>
    /\ chunk_jobs = <<>>
    /\ handed = <<>>
    /\ events = <<>>
    /\ score_in = PyNone
    /\ label = "none"

\* a chunk of the provider's answer has been parsed into postings
ChunkInit ==
    /\ sphase = "raw"
    /\ keywords \in KeywordLists
    /\ chunk_jobs \in Chunks
    /\ handed = <<>>
    /\ events = <<>>
    /\ score_in = PyNone
    /\ label = "none"

\* a call of get_match_quality_label
LabelInit ==
    /\ sphase = "label"
    /\ keywords = <<>>
    /\ chunk_jobs = <<>>
    /\ handed = <<>>
    /\ events = <<>>
    /\ score_in \in LabelScores
    /\ label = "none"

ScoresInit == ChunkInit \/ LabelInit

\* perplexity_api.py:626: jobs = self._try_extract_jobs_from_stream(...)
ExtractJobs ==
    /\ sphase = "raw"
    /\ chunk_jobs' = try_extract_jobs_from_stream(chunk_jobs)
    /\ sphase' = "parsed"
    /\ UNCHANGED <<keywords, handed, events, score_in, label, streamVars, sectionVars, uploadVars, laterVars>>

\* perplexity_api.py:628-630: primary_keyword is keywords[0] (line 455)
ScoreJobs ==
    /\ sphase = "parsed"
    /\ chunk_jobs' = calculate_match_scores(chunk_jobs, keywords, keywords[1])
    /\ sphase' = "scored"
    /\ UNCHANGED <<keywords, handed, events, score_in, label, streamVars, sectionVars, uploadVars, laterVars>>

\* perplexity_api.py:632-646, 681-682: the new postings go to the callback
\* and, at the end, to save_document_jobs
HandJobs ==
    /\ sphase = "scored"
    /\ handed' = chunk_jobs
    /\ sphase' = "handed"
    /\ UNCHANGED <<keywords, chunk_jobs, events, score_in, label, streamVars, sectionVars, uploadVars, laterVars>>

\* cv.py:715-744: the generator pulls the next posting and yields its event
EmitJobEvent ==
    /\ sphase = "handed"
    /\ Len(events) < Len(handed)
    /\ events' = Append(events, JobEvent(handed[Len(events) + 1]))
    /\ UNCHANGED <<sphase, keywords, chunk_jobs, handed, score_in, label, streamVars, sectionVars, uploadVars, laterVars>>

LabelScore ==
    /\ sphase = "label"
    /\ label' = get_match_quality_label(score_in)
    /\ sphase' = "labelled"
    /\ UNCHANGED <<keywords, chunk_jobs, handed, events, score_in, streamVars, sectionVars, uploadVars, laterVars>>

(***************************************************************************)
(* Text extraction and upload.                                             *)
(*   services/document_parser/pdf_parser.py, docx_parser.py,               *)
(*       text_parser.py  extract_text                                      *)
(*   services/document_parser/parser.py  DocumentParser.parse_document     *)
(*   routers/cv.py  upload_cv                                              *)
(*                                                                         *)
(* A file is its extension and what its bytes are: "empty" (zero bytes),   *)
(* "text" (text can be extracted), "notext" (a well-formed file without    *)
(* text: an image-only PDF, a document without paragraphs, a text file of  *)
(* blanks), "corrupt" (not in the format of its extension) or              *)
(* "unreadable" (reading it fails).                                        *)
(***************************************************************************)
Extensions == {".pdf", ".docx", ".txt", ".png"}

\* cv.py:120
allowed_extensions == {".pdf", ".doc", ".docx", ".txt"}

ByteKinds == {"empty", "text", "notext", "corrupt", "unreadable"}

Files == [ext : Extensions, bytes : ByteKinds]

Text(t) == [ok |-> TRUE, text |-> t]

\* pdf_parser.py:25-62; the text returned for a PDF without text is the
\* message of line 51
PDFParser_extract_text(f) ==
    CASE f.bytes = "unreadable" -> Raised("ValueError")
      [] f.bytes = "empty" -> Raised("ValueError")
      [] f.bytes = "corrupt" -> Raised("ValueError")
      [] f.bytes = "notext" -> Text("message")
      [] OTHER -> Text("text")

\* docx_parser.py:22-55: docx.Document raises on what is no package
DocxParser_extract_text(f) ==
    CASE f.bytes = "unreadable" -> Raised("ValueError")
      [] f.bytes = "empty" -> Raised("ValueError")
      [] f.bytes = "corrupt" -> Raised("ValueError")
      [] f.bytes = "notext" -> Text("")
      [] OTHER -> Text("text")

\* text_parser.py:22-39: errors='ignore', so any bytes are read; the blank
\* lines are dropped
TextParser_extract_text(f) ==
    CASE f.bytes = "unreadable" -> Raised("ValueError")
      [] f.bytes \in {"empty", "notext"} -> Text("")
      [] OTHER -> Text("text")

\* parser.py:154-161: the parser of the extension
extract_text(f) ==
    CASE f.ext = ".pdf" -> PDFParser_extract_text(f)
      [] f.ext \in {".doc", ".docx"} -> DocxParser_extract_text(f)
      [] OTHER -> TextParser_extract_text(f)

\* asyncio.run(coro): RuntimeError when a loop is running in the thread,
\* the result (or exception) of the coroutine otherwise
asyncio_run(result, running) == IF running THEN Raised("RuntimeError") ELSE result

\* parser.py:138-176: the text, or "" when the extension is not supported,
\* anything raises or the text is empty
parse_document(f, running) ==
    IF f.ext \notin {".pdf", ".doc", ".docx", ".txt"} THEN ""
    ELSE LET r == asyncio_run(extract_text(f), running)
         IN  IF ~r.ok THEN "" ELSE r.text

Response(status, success) == [status |-> status, success |-> success]

Outcome(resp, docs) == [response |-> resp, added |-> docs]

upload_cv_storesFirst(f, skip_parsing, converts) ==
    IF f.ext \notin allowed_extensions THEN Outcome(Response(400, FALSE), <<>>)
    ELSE Outcome(Response(IF skip_parsing THEN 200 ELSE 400, skip_parsing),
                 <<[content |-> "none", ext |-> f.ext]>>)

\* cv.py:104-264: the response and the documents given to db.add_document.
\* upload_cv is a coroutine of the server's loop, so the loop is running when
\* it calls parse_document (line 205); awaiting the str that parse_document
\* returns (line 216) raises TypeError
upload_cv(f, skip_parsing, converts) ==
    IF f.ext \notin allowed_extensions THEN Outcome(Response(400, FALSE), <<>>)
    ELSE IF f.bytes = "unreadable" THEN Outcome(Response(500, FALSE), <<>>)
    ELSE IF f.bytes = "empty" THEN Outcome(Response(400, FALSE), <<>>)
    ELSE IF f.ext \in {".doc", ".docx"} /\ ~converts THEN Outcome(Response(500, FALSE), <<>>)
    ELSE LET parsed == [f EXCEPT !.ext = IF @ \in {".doc", ".docx"} THEN ".pdf" ELSE @]
         IN  IF skip_parsing
             THEN Outcome(Response(200, TRUE), <<[content |-> "none", ext |-> parsed.ext]>>)
             ELSE IF parse_document(parsed, TRUE) = ""
             THEN Outcome(Response(400, FALSE), <<>>)
             ELSE Outcome(Response(500, FALSE), <<>>)

NoFile == [ext |-> "", bytes |-> "empty"]

NoRequest == [call |-> "none", file |-> NoFile, skip_parsing |-> FALSE]

UploadIdle ==
    /\ uphase = "off"
    /\ documents = <<>>
    /\ request = NoRequest
    /\ response = Response(0, FALSE)
    /\ extracted = Raised("none")

\* the server is up and the document store is empty
UploadInit ==
    /\ uphase = "serving"
    /\ documents = <<>>
    /\ request = NoRequest
    /\ response = Response(0, FALSE)
    /\ extracted = Raised("none")

\* POST /api/cv/upload.  FileConverter.docx_to_pdf succeeds or raises
\* (file_converter.py:52-65), whatever the document
Upload ==
    /\ uphase = "serving"
    /\ \E f \in Files, skip_parsing \in BOOLEAN, converts \in BOOLEAN :
         LET o == upload_cv(f, skip_parsing, converts)
         IN  /\ Len(documents) + Len(o.added) <= MaxDocuments
             /\ documents' = documents \o o.added
             /\ response' = o.response
             /\ request' = [call |-> "upload", file |-> f, skip_parsing |-> skip_parsing]
    /\ UNCHANGED <<uphase, extracted, streamVars, sectionVars, scoreVars, laterVars>>

\* a parser's extract_text is awaited with the path of a file
ExtractText ==
    /\ uphase = "serving"
    /\ \E f \in Files :
         /\ f.ext \in {".pdf", ".docx", ".txt"}
         /\ extracted' = extract_text(f)
         /\ request' = [call |-> "extract_text", file |-> f, skip_parsing |-> FALSE]
    /\ response' = Response(0, FALSE)
    /\ UNCHANGED <<uphase, documents, streamVars, sectionVars, scoreVars, laterVars>>

(***************************************************************************)
(* services/ai/perplexity_api.py: analyze_cv, _extract_json_from_text,     *)
(* _create_fallback_analysis, generate_search_keywords.                    *)
(* A JSON value is a tagged record; a JSON object and an analysis record   *)
(* are functions from keys to values, JMissing for a key that is absent.   *)
(***************************************************************************)
JMissing == [t |-> "missing", v |-> <<>>]

JNull == [t |-> "null", v |-> <<>>]

JList(s) == [t |-> "list", v |-> s]

JStr(s) == [t |-> "str", v |-> <<s>>]

JInt(s) == [t |-> "int", v |-> <<s>>]

\* perplexity_api.py:18-27: the fields of CVAnalysisFormat declared List[str]
ListFields == {"skills", "job_titles", "industries", "certifications",
               "languages", "key_achievements", "job_search_keywords"}

\* perplexity_api.py:21-23: the fields declared Optional
OptionalFields == {"years_experience", "education_level", "education_field"}

SchemaFields == ListFields \cup OptionalFields

\* every key an analysis record can hold
RecordKeys == SchemaFields \cup {"analyzed_at", "analysis_method"}

\* default_factory=list and None of CVAnalysisFormat; the second argument of
\* result.get at 152-161
Default(k) == IF k \in ListFields THEN JList(<<>>) ELSE JNull

\* the keys whose value varies in the provider's answers of the model
VariedKeys == {"skills", "years_experience", "education_level"}

ValuesOf(k) ==
    CASE k = "skills" ->
           {JMissing, JList(<<>>), JList(<<"Python">>), JNull, JStr("Python")}
      [] k = "years_experience" ->
           {JMissing, JInt("5"), JNull, JStr("five")}
      [] k = "education_level" ->
           {JMissing, JStr("PhD"), JNull}
      [] OTHER -> {JMissing}

\* the JSON objects a provider answers with
Objects ==
    {[k \in SchemaFields |->
         CASE k = "skills" -> a
           [] k = "years_experience" -> b
           [] k = "education_level" -> c
           [] OTHER -> JMissing] :
        a \in ValuesOf("skills"), b \in ValuesOf("years_experience"),
        c \in ValuesOf("education_level")}

NoObject == [k \in SchemaFields |-> JMissing]

\* the content of a completion: what surrounds the JSON text (a closed
\* <think> section before it, a ```json fence, a plain ``` fence, nothing)
\* and the text itself
Wraps == {"think", "json_fence", "code_fence", "none"}

Completion(wrap, form, obj) == [wrap |-> wrap, form |-> form, obj |-> obj]

Contents ==
    {Completion(w, "object", o) : w \in Wraps, o \in Objects}
        \cup {Completion(w, "prose", NoObject) : w \in Wraps}
        \cup {Completion("none", "empty", NoObject)}

\* str.lower() on the strings of the model
LowerStr(s) ==
    CASE s = "Python" -> "python"
      [] s = "PhD" -> "phd"
      [] OTHER -> s

LowerValue(x) == [x EXCEPT !.v = [i \in 1..Len(x.v) |-> LowerStr(x.v[i])]]

HasArray(o) == \E k \in SchemaFields : o[k].t = "list"

\* perplexity_api.py:832-956.  The text returned: an object, the first array
\* of an object (case 4 comes before case 5), or text that is not JSON.
extract_json_from_text(c) ==
    CASE c.form = "empty" -> c
      [] c.wrap = "think" -> c
      [] c.wrap = "json_fence" ->
           [c EXCEPT !.obj = [k \in SchemaFields |-> LowerValue(c.obj[k])]]
      [] c.wrap = "code_fence" -> c
      [] OTHER ->
           IF c.form = "object" /\ HasArray(c.obj)
           THEN Completion("none", "array", NoObject)
           ELSE c

\* CVAnalysisFormat(**result) accepts the object
Validates(o) ==
    \A k \in SchemaFields :
        \/ o[k] = JMissing
        \/ k \in ListFields /\ o[k].t = "list"
        \/ k = "years_experience" /\ o[k].t \in {"int", "null"}
        \/ k \in OptionalFields \ {"years_experience"} /\ o[k].t \in {"str", "null"}

Timestamp == JStr("now")

\* perplexity_api.py:146: CVAnalysisFormat(**result).model_dump()
model_dump(o) ==
    [k \in RecordKeys |->
        IF k \in SchemaFields
        THEN IF o[k] = JMissing THEN Default(k) ELSE o[k]
        ELSE JMissing]

\* perplexity_api.py:151-162: the record built after a validation error
default_structure(o) ==
    [k \in RecordKeys |->
        IF k \in SchemaFields
        THEN IF o[k] = JMissing THEN Default(k) ELSE o[k]
        ELSE JMissing]

\* a CV text: the empty string, white space, or a text in which some of
\* these phrases occur
Phrases == {"python", "developer", "phd", "5 years of experience"}

Cv(s, words) == [s |-> s, words |-> words]

CvContents ==
    {Cv("empty", {}), Cv("blank", {})} \cup {Cv("text", w) : w \in SUBSET Phrases}

\* what one call of requests.post does
Reply(kind, status, content) == [kind |-> kind, status |-> status, content |-> content]

NoContent == Completion("none", "empty", NoObject)

\* the answers to the analysis request: no answer in time, no connection,
\* a refusal, a 200 whose body is not JSON, a 200 with a completion
AnalysisReplies ==
    {Reply("timeout", 0, NoContent), Reply("connection_error", 0, NoContent),
     Reply("response", 401, NoContent), Reply("garbled", 200, NoContent)}
        \cup {Reply("response", 200, c) : c \in Contents}

\* the answers to the keyword request of generate_search_keywords
KeywordReplies ==
    {Reply("timeout", 0, NoContent), Reply("response", 500, NoContent),
     Reply("response", 200, Completion("think", "array", NoObject))}

Keep(words, list) == SelectSeq(list, LAMBDA w : w \in words)

\* perplexity_api.py:298-426.  With a key the keywords come from the
\* provider, and from the skills and titles when the request fails (the
\* order of list(set(...)) is not specified; the model keeps list order).
generate_search_keywords(key, reply, skills, job_titles) ==
    IF ~key THEN skills \o job_titles
    ELSE IF reply.kind = "response" /\ reply.status = 200
              /\ reply.content.form = "array"
         THEN <<"cloud engineer">>
         ELSE skills \o job_titles

\* perplexity_api.py:186-296
create_fallback_analysis(key, cv, reply) ==
    LET skills == Keep(cv.words, <<"python">>)
        job_titles == Keep(cv.words, <<"developer">>)
    IN  [k \in RecordKeys |->
            CASE k = "skills" -> JList(skills)
              [] k = "job_titles" -> JList(job_titles)
              [] k = "industries" -> JList(<<>>)
              [] k = "years_experience" ->
                   IF "5 years of experience" \in cv.words THEN JInt("5") ELSE JNull
              [] k = "education_level" ->
                   IF "phd" \in cv.words THEN JStr("PhD") ELSE JNull
              [] k = "job_search_keywords" ->
                   JList(generate_search_keywords(key, reply, skills, job_titles))
              [] k = "analyzed_at" -> Timestamp
              [] k = "analysis_method" -> JStr("fallback")
              [] OTHER -> Default(k)]

NoRecord == [k \in RecordKeys |-> JMissing]

None == [returned |-> "None", record |-> NoRecord]

Returned(r) == [returned |-> "record", record |-> r]

\* perplexity_api.py:132-174: the answer was a 200 whose body is JSON
process_response(key, cv, rs) ==
    LET json_content == extract_json_from_text(rs[1].content)
    IN  IF json_content.form = "object"
        THEN LET result == json_content.obj
                 validated_data == IF Validates(result) THEN model_dump(result)
                                   ELSE default_structure(result)
             IN  Returned([validated_data EXCEPT !["analyzed_at"] = Timestamp])
        \* json.loads raises (168), or the value is a list: CVAnalysisFormat
        \* raises, then result.get raises (172)
        ELSE Returned(create_fallback_analysis(key, cv, rs[2]))

\* perplexity_api.py:64-184
analyze_cv(key, cv, rs) ==
    IF ~key THEN None
    ELSE IF cv.s \in {"empty", "blank"} THEN None
    ELSE IF rs[1].kind \in {"timeout", "connection_error"}
         THEN Returned(create_fallback_analysis(key, cv, rs[2]))
    ELSE IF rs[1].kind = "garbled"
         THEN Returned(create_fallback_analysis(key, cv, rs[2]))
    ELSE IF rs[1].status # 200 THEN None
    ELSE process_response(key, cv, rs)

AnalysisIdle ==
    /\ aphase = "off"
    /\ api_key = FALSE
    /\ cv_content = Cv("empty", {})
    /\ replies = <<Reply("timeout", 0, NoContent), Reply("timeout", 0, NoContent)>>
    /\ analysis = None

AnalysisInit ==
    /\ aphase = "ready"
    /\ api_key \in BOOLEAN
    /\ cv_content \in CvContents
    /\ replies \in AnalysisReplies \X KeywordReplies
    /\ analysis = None

\* one call of analyze_cv
Analyze ==
    /\ aphase = "ready"
    /\ analysis' = analyze_cv(api_key, cv_content, replies)
    /\ aphase' = "done"
    /\ UNCHANGED <<api_key, cv_content, replies, streamVars, sectionVars,
                   scoreVars, uploadVars, storeVars>>

(***************************************************************************)
(* services/database/json_db.py: the store is one JSON file, db.json.      *)
(* Every operation reads the whole file, changes its copy and writes the   *)
(* whole file back through write_db: db.tmp is written, db.json is        *)
(* unlinked, db.tmp is renamed.  Two callers (request handlers in the     *)
(* thread pool, a background search) run operations concurrently; a step  *)
(* of the model is one file-system call.  A record of the store is         *)
(* identified with the id of its document.                                 *)
(***************************************************************************)
DocIds == {"d1", "d2"}

Callers == {1, 2}

Db(ds, ks, js) == [documents |-> ds, documents_keywords |-> ks, documents_jobs |-> js]

\* json_db.py:93: what read_db returns when the file cannot be opened
EmptyDb == Db(<<>>, <<>>, <<>>)

File(exists, data) == [exists |-> exists, data |-> data]

Absent == File(FALSE, EmptyDb)

\* json_db.py:79-93
read_db(file) == IF file.exists THEN file.data ELSE EmptyDb

Without(list, d) == SelectSeq(list, LAMBDA x : x # d)

Has(list, d) == \E i \in 1..Len(list) : list[i] = d

\* json_db.py:146-162: the collection add_document writes
add_document(db, d) == [db EXCEPT !.documents = Append(@, d)]

\* json_db.py:218-242: the record of d is replaced in place, or appended
save_document_keywords(db, d) ==
    IF Has(db.documents_keywords, d) THEN db
    ELSE [db EXCEPT !.documents_keywords = Append(@, d)]

\* json_db.py:284-305: the postings of d are removed, the new ones appended
save_document_jobs(db, d) ==
    [db EXCEPT !.documents_jobs = Append(Without(@, d), d)]

Operations == {"add_document", "save_document_keywords", "save_document_jobs",
               "delete_document"}

\* a caller: the operation it runs and for which document, where it stands
\* in the operation (stage) and in write_db (wpc), the db it read, the data
\* it is writing, whether one of its write_db calls returned False, and what
\* the operation returned
Caller(op, doc, stage, wpc, db, wdata, wfailed, ret) ==
    [op |-> op, doc |-> doc, stage |-> stage, wpc |-> wpc, db |-> db,
     wdata |-> wdata, wfailed |-> wfailed, ret |-> ret]

IdleCaller == Caller("none", "d1", "idle", "none", EmptyDb, EmptyDb, FALSE, "none")

\* write_db(data) is entered
StartWrite(c, stage, data) == [c EXCEPT !.stage = stage, !.wpc = "open_temp", !.wdata = data]

\* the operation returns
Done(c, ret) == [c EXCEPT !.stage = "done", !.wpc = "none", !.ret = ret]

\* write_db has returned (True, or False when failed): the operation goes on.
\* No operation looks at the value write_db returns.
AfterWrite(c, failed) ==
    LET c1 == [c EXCEPT !.wfailed = @ \/ failed, !.wpc = "none"]
    IN  CASE c.stage \in {"add_document", "save_document_keywords", "save_document_jobs"}
                -> Done(c1, "record")
          [] c.stage = "delete_document_keywords" -> [c1 EXCEPT !.stage = "jobs_read"]
          [] c.stage = "delete_document_jobs" -> StartWrite(c1, "delete_document", c1.db)
          [] OTHER -> Done(c1, "True")

Set(c, p, r) == [c EXCEPT ![p] = r]

\* a caller enters an operation (the callers are interchangeable: the
\* second is the one that enters second)
Call ==
    \E p \in Callers, op \in Operations, d \in DocIds :
        /\ callers[p].stage = "idle"
        /\ \A q \in Callers : q < p => callers[q].stage # "idle"
        /\ callers' = Set(callers, p, [IdleCaller EXCEPT !.op = op, !.doc = d, !.stage = "read"])
        /\ UNCHANGED <<db_file, temp_file, last_read, write_error, first_db, nonStoreVars>>

\* the first statement of the operation, db = self.read_db(), and the
\* changes to the copy up to the call of write_db
OpRead ==
    \E p \in Callers :
        LET c == callers[p]
            db == read_db(db_file)
        IN  /\ c.stage = "read"
            /\ c.op = "add_document" => Len(db.documents) < MaxDocuments
            /\ callers' = Set(callers, p,
                 CASE c.op = "add_document" -> StartWrite(c, c.op, add_document(db, c.doc))
                   [] c.op = "save_document_keywords" ->
                        StartWrite(c, c.op, save_document_keywords(db, c.doc))
                   [] c.op = "save_document_jobs" ->
                        StartWrite(c, c.op, save_document_jobs(db, c.doc))
                   \* json_db.py:195-210
                   [] OTHER ->
                        IF Has(db.documents, c.doc)
                        THEN [c EXCEPT !.stage = "keywords_read",
                                       !.db = [db EXCEPT !.documents = Without(@, c.doc)]]
                        ELSE Done(c, "False"))
            /\ UNCHANGED <<db_file, temp_file, last_read, write_error, first_db, nonStoreVars>>

\* json_db.py:204, 260-276: delete_document calls delete_document_keywords,
\* which reads the file again and writes it when it removed a record
KeywordsRead ==
    \E p \in Callers :
        LET c == callers[p]
            db == read_db(db_file)
        IN  /\ c.stage = "keywords_read"
            /\ callers' = Set(callers, p,
                 IF Has(db.documents_keywords, c.doc)
                 THEN StartWrite(c, "delete_document_keywords",
                                 [db EXCEPT !.documents_keywords = Without(@, c.doc)])
                 ELSE [c EXCEPT !.stage = "jobs_read"])
            /\ UNCHANGED <<db_file, temp_file, last_read, write_error, first_db, nonStoreVars>>

\* json_db.py:206, 320-336: then delete_document_jobs, in the same way; at
\* 207 delete_document writes the copy it read at 195
JobsRead ==
    \E p \in Callers :
        LET c == callers[p]
            db == read_db(db_file)
        IN  /\ c.stage = "jobs_read"
            /\ callers' = Set(callers, p,
                 IF Has(db.documents_jobs, c.doc)
                 THEN StartWrite(c, "delete_document_jobs",
                                 [db EXCEPT !.documents_jobs = Without(@, c.doc)])
                 ELSE StartWrite(c, "delete_document", c.db))
            /\ UNCHANGED <<db_file, temp_file, last_read, write_error, first_db, nonStoreVars>>

\* json_db.py:104-106: the temp file is opened and the data dumped into it
OpenTemp ==
    \E p \in Callers :
        /\ callers[p].wpc = "open_temp"
        /\ temp_file' = File(TRUE, callers[p].wdata)
        /\ callers' = Set(callers, p, [callers[p] EXCEPT !.wpc = "temp_exists"])
        /\ UNCHANGED <<db_file, last_read, write_error, first_db, nonStoreVars>>

\* json_db.py:105, 114-116: open raises (no space, no permission); write_db
\* logs it and returns False
OpenTempFails ==
    \E p \in Callers :
        /\ callers[p].wpc = "open_temp"
        /\ write_error' = TRUE
        /\ callers' = Set(callers, p, AfterWrite(callers[p], TRUE))
        /\ UNCHANGED <<db_file, temp_file, last_read, first_db, nonStoreVars>>

\* json_db.py:109: if temp_file.exists()
TempExists ==
    \E p \in Callers :
        /\ callers[p].wpc = "temp_exists"
        /\ callers' = Set(callers, p,
             IF temp_file.exists THEN [callers[p] EXCEPT !.wpc = "db_exists"]
             ELSE AfterWrite(callers[p], FALSE))
        /\ UNCHANGED <<db_file, temp_file, last_read, write_error, first_db, nonStoreVars>>

\* json_db.py:110: if self.db_file.exists()
DbExists ==
    \E p \in Callers :
        /\ callers[p].wpc = "db_exists"
        /\ callers' = Set(callers, p,
             [callers[p] EXCEPT !.wpc = IF db_file.exists THEN "unlink" ELSE "rename"])
        /\ UNCHANGED <<db_file, temp_file, last_read, write_error, first_db, nonStoreVars>>

\* json_db.py:111: self.db_file.unlink(), FileNotFoundError when another
\* caller has unlinked it meanwhile
Unlink ==
    \E p \in Callers :
        /\ callers[p].wpc = "unlink"
        /\ db_file' = Absent
        /\ callers' = Set(callers, p,
             IF db_file.exists THEN [callers[p] EXCEPT !.wpc = "rename"]
             ELSE AfterWrite(callers[p], TRUE))
        /\ UNCHANGED <<temp_file, last_read, write_error, first_db, nonStoreVars>>

\* json_db.py:112: temp_file.rename(self.db_file), FileNotFoundError when
\* another caller has renamed the temp file meanwhile
Rename ==
    \E p \in Callers :
        /\ callers[p].wpc = "rename"
        /\ db_file' = IF temp_file.exists THEN temp_file ELSE db_file
        /\ temp_file' = Absent
        /\ callers' = Set(callers, p, AfterWrite(callers[p], ~temp_file.exists))
        /\ UNCHANGED <<last_read, write_error, first_db, nonStoreVars>>

\* a reader (any get_ or list_ method) calls read_db: it is given the
\* collection, or the empty default of json_db.py:93 when open() raises
ReadDb ==
    /\ last_read' = IF db_file.exists THEN "collection" ELSE "default"
    /\ UNCHANGED <<db_file, temp_file, callers, write_error, first_db, nonStoreVars>>

\* the lists of document ids without repetition
DocLists ==
    {s \in UNION {[1..n -> DocIds] : n \in 0..Cardinality(DocIds)} :
        \A i, j \in 1..Len(s) : s[i] = s[j] => i = j}

StoreIdle ==
    /\ db_file = File(TRUE, EmptyDb)
    /\ temp_file = Absent
    /\ callers = [p \in Callers |-> IdleCaller]
    /\ last_read = "collection"
    /\ write_error = FALSE
    /\ first_db = db_file.data

\* json_db.py:28-48: db.json exists once JsonDatabase is constructed, and has
\* been read
StoreInit ==
    /\ \E ds \in DocLists, with_keywords \in BOOLEAN, with_jobs \in BOOLEAN :
         db_file = File(TRUE, Db(ds, IF with_keywords THEN ds ELSE <<>>,
                                     IF with_jobs THEN ds ELSE <<>>))
    /\ temp_file = Absent
    /\ callers = [p \in Callers |-> IdleCaller]
    /\ last_read = "collection"
    /\ write_error = FALSE
    /\ first_db = db_file.data

\* search_jobs_async runs search_jobs, and so job_callback, either as a task
\* on the event loop or on a worker thread
CallbackContexts == {"loop", "thread"}

StreamInit ==
    /\ ctx \in CallbackContexts
    /\ pc = "start"
    /\ now = 0
    /\ job_queue = <<>>
    /\ pending = <<>>
    /\ search_complete = FALSE
    /\ search_error = "none"
    /\ jobs_found = 0
    /\ start_time = 0
    /\ spc = "none"
    /\ all_jobs = <<>>
    /\ sj_error = "none"
    /\ out = NoOutput
    /\ emitted = <<>>
    /\ enq = <<>>
    /\ twice = {}
    /\ hist = [providerError |-> FALSE, lateJobs |-> FALSE]

SectionsIdle ==
    /\ phase = "off"
    /\ text = <<>>
    /\ sections = EmptySections

Init == StreamInit /\ SectionsIdle /\ ScoresIdle /\ UploadIdle /\ AnalysisIdle /\ StoreIdle

Next == GenNext \/ SearchNext

Spec == Init /\ [][Next]_vars

\* the sessions whose search calls job_callback on the event loop
InitLoop == Init /\ ctx = "loop"

SpecLoop == InitLoop /\ [][Next]_vars

\* the server keeps pulling from the generator, and an awaited pull returns
FairSpec == Spec /\ WF_vars(GenNext)

StreamIdle ==
    /\ StreamInit
    /\ ctx = "loop"

InitSections == SectionsInit /\ StreamIdle /\ ScoresIdle /\ UploadIdle /\ AnalysisIdle /\ StoreIdle

NextSections == Extract

SpecSections == InitSections /\ [][NextSections]_vars

InitScores == ScoresInit /\ StreamIdle /\ SectionsIdle /\ UploadIdle /\ AnalysisIdle /\ StoreIdle

NextScores ==
    \/ ExtractJobs
    \/ ScoreJobs
    \/ HandJobs
    \/ EmitJobEvent
    \/ LabelScore

SpecScores == InitScores /\ [][NextScores]_vars

InitUpload == UploadInit /\ StreamIdle /\ SectionsIdle /\ ScoresIdle /\ AnalysisIdle /\ StoreIdle

NextUpload == Upload \/ ExtractText

SpecUpload == InitUpload /\ [][NextUpload]_vars

InitAnalysis ==
    AnalysisInit /\ StreamIdle /\ SectionsIdle /\ ScoresIdle /\ UploadIdle /\ StoreIdle

NextAnalysis == Analyze

SpecAnalysis == InitAnalysis /\ [][NextAnalysis]_vars

InitStore ==
    StoreInit /\ StreamIdle /\ SectionsIdle /\ ScoresIdle /\ UploadIdle /\ AnalysisIdle

NextStore ==
    \/ Call
    \/ OpRead
    \/ KeywordsRead
    \/ JobsRead
    \/ OpenTemp
    \/ OpenTempFails
    \/ TempExists
    \/ DbExists
    \/ Unlink
    \/ Rename
    \/ ReadDb

SpecStore == InitStore /\ [][NextStore]_vars


(***************************************************************************)
(* Properties of the stream session.                                       *)
(***************************************************************************)
IdCount(s, id) == Cardinality({i \in 1..Len(s) : s[i].id = id})

\* a[i..] can be read off b[k..] from left to right, skipping elements of b
RECURSIVE InOrderFrom(_, _, _, _)
InOrderFrom(a, i, b, k) ==
    IF i > Len(a) THEN TRUE
    ELSE IF k > Len(b) THEN FALSE
    ELSE IF b[k] = a[i] THEN InOrderFrom(a, i + 1, b, k + 1)
    ELSE InOrderFrom(a, i, b, k + 1)

\* C1: a validated session emits exactly one final outcome event (status
\* completed or error), whichever way it ends, and nothing follows it: never
\* more than one, none after it, and when the generator has returned there is
\* one and it is the last event.
C1_OneFinalEventLast ==
    /\ out.finals <= 1
    /\ ~out.late
    /\ pc \in {"final", "done"} => (out.finals = 1 /\ out.last \in FinalKinds)
    /\ out.finals = 1 => pc \in {"final", "done"}

\* a session that timed out after having emitted postings, with its one final event
C1_Witness ==
    /\ pc = "done"
    /\ out.timeouts = 1
    /\ jobs_found > 0
    /\ out.finals = 1

\* C2: `sufficient` is emitted exactly once if the count of emitted postings
\* reaches 25 and never otherwise; it directly follows the 25th job event, the
\* 26th posting does not emit it again, and the loop goes on after it (back
\* to the pull unless the search is complete or the budget is spent).
C2_SufficientOnce ==
    /\ [](/\ out.sufficient <= 1
          /\ out.sufficient = 1 <=>
               (Len(emitted) >= SufficientCount
                  /\ ~(pc = "job" /\ Len(emitted) = SufficientCount))
          /\ pc = "job" => jobs_found = Len(emitted))
    /\ [][/\ out'.sufficient # out.sufficient =>
               (out.last = "job" /\ Len(emitted) = SufficientCount /\ emitted' = emitted)
          /\ (pc = "sufficient" /\ pc' # pc /\ ~search_complete /\ ~TimedOut(start_time))
               => pc' = "wait"]_vars

\* the 26th posting has been emitted and the generator is pulling again
C2_Witness ==
    /\ Len(emitted) = SufficientCount + 1
    /\ out.sufficient = 1
    /\ pc = "wait"

C4_TimeoutZeroCompleted ==
    (pc = "done" /\ out.timeouts > 0 /\ jobs_found = 0 /\ emitted = <<>>
        /\ ~hist.providerError)
        => (out.status = "completed" /\ out.total = 0)

\* C5: every validated session ends: the generator is never inside the loop
\* later than one pull (3 s) after the budget of 60 s, and it eventually
\* returns after its final event, whether or not the search ever signals and
\* whether or not postings keep arriving.
C5_SessionEnds ==
    /\ [](now - start_time <= overall_timeout + PullTimeout)
    /\ [](pc = "wait" => now - start_time <= overall_timeout)
    /\ <>(pc = "done" /\ out.finals = 1)

\* ended by the budget alone, postings having arrived, the search still silent
C5_Witness ==
    /\ pc = "done"
    /\ out.timeouts = 1
    /\ ~search_complete
    /\ jobs_found > 0
    /\ now - start_time > overall_timeout

\* C6 as stated: a failure the provider reported through the callback's error
\* argument ends the session with one final event of status error; an overall
\* timeout without provider error never ends with status error.
C6_ErrorVersusTimeout ==
    pc = "done" =>
        /\ hist.providerError => (out.status = "error" /\ out.finals = 1)
        /\ (out.timeouts > 0 /\ ~hist.providerError) => out.status # "error"

\* C7: job events leave in the order in which the postings were put on the
\* queue: the sequence of emitted postings is the sequence of enqueued
\* postings with some left out, so every emitted posting was enqueued and of
\* two emitted postings the one enqueued first is emitted first.
C7_Fifo == InOrderFrom(emitted, 1, enq, 1)

\* three postings emitted while two more were waiting on the queue
C7_Witness ==
    /\ Len(emitted) >= 3
    /\ Len(job_queue) = 2

\* C8: `started` is emitted exactly once and first, the initial `searching`
\* second, so no job, keepalive or `sufficient` event precedes them; no event
\* follows the final one, and the generator only moves forward from the two
\* opening yields into the loop and from the final yield to its return.
C8_ForwardOnly ==
    /\ [](/\ out.first \in {"none", "started"}
          /\ out.second \in {"none", "searching"}
          /\ out.started <= 1
          /\ (pc # "start") => out.started = 1
          /\ (emitted # <<>> \/ out.sufficient > 0 \/ out.timeouts > 0 \/ out.finals > 0)
                => (out.first = "started" /\ out.second = "searching")
          /\ ~out.late)
    /\ [][/\ pc' \in {"start", "started"} => pc \in {"start", "started"}
          /\ pc \in {"final", "done"} => pc' \in {"final", "done"}
          /\ pc = "done" => pc' = "done"]_vars

\* a session that went through SUFFICIENT and has returned
C8_Witness ==
    /\ pc = "done"
    /\ out.sufficient = 1
    /\ out.first = "started"
    /\ out.second = "searching"

\* C9: once the loop has stopped, nothing the search still delivers is
\* emitted as a job event, and no event follows the final message; the search
\* is not cancelled, its callback still runs.
C9_NothingAfterLoop ==
    [][/\ LoopStopped => (emitted' = emitted /\ jobs_found' = jobs_found
                          /\ Len(job_queue') >= Len(job_queue))
       /\ out.finals > 0 => out' = out]_vars

\* the generator has returned, the search called back with postings after
\* the loop had stopped, and they sit on the queue
C9_Witness ==
    /\ pc = "done"
    /\ hist.lateJobs
    /\ job_queue # <<>>
    /\ Len(emitted) < Len(enq)

(***************************************************************************)
(* Properties of extract_sections.                                         *)
(***************************************************************************)
RECURSIVE TxtCount(_, _)
TxtCount(s, t) ==
    IF s = <<>> THEN 0 ELSE (IF Head(s) = t THEN 1 ELSE 0) + TxtCount(Tail(s), t)

RECURSIVE BucketCount(_, _, _)
BucketCount(secs, keys, t) ==
    IF keys = {} THEN 0
    ELSE LET k == CHOOSE x \in keys : TRUE
         IN  TxtCount(secs[k], t) + BucketCount(secs, keys \ {k}, t)

InputTxt(lines) == [i \in 1..Len(lines) |-> lines[i].txt]

\* C10 as stated: every non-blank line of the input is in exactly one section
\* bucket, as often as it occurs in the input: none dropped, none in two
\* buckets.
C10_EveryLineOnce ==
    phase = "done" =>
        \A l \in Lines :
            ~IsBlank(l) =>
                BucketCount(sections, DOMAIN sections, l.txt) = TxtCount(InputTxt(text), l.txt)

\* sections.get(key, [])
Bucket(secs, key) == IF key \in DOMAIN secs THEN secs[key] ELSE <<>>

\* the non-blank lines of the document, in document order
NonBlankTxt(lines) == Content(lines, 1, Len(lines) + 1)

IsHeader(line) == ~IsBlank(line) /\ score_line_as_header(line) >= 3

\* C11 as stated: when "EDUCATION:" (the only education header of the
\* document) is followed by lines that are no headers and then by a known
\* section header, the education bucket holds exactly the lines between the
\* two headers, and none of them is in "other", wherever the other headers are.
C11_EducationBetweenHeaders ==
    phase = "done" =>
        \A i, j \in 1..Len(text) :
            ( /\ i < j
              /\ text[i].txt = "EDUCATION:"
              /\ \A k \in 1..Len(text) : ("education" \in text[k].kw) => k = i
              /\ IsHeader(text[j]) /\ text[j].kw # {}
              /\ \A k \in (i + 1)..(j - 1) : ~IsHeader(text[k]) )
            => /\ Bucket(sections, "education") = Content(text, i + 1, j)
               /\ \A k \in (i + 1)..(j - 1) :
                      (/\ ~IsBlank(text[k])
                       /\ \A m \in 1..Len(text) : text[m] = text[k] => (i < m /\ m < j))
                      => TxtCount(Bucket(sections, "other"), text[k].txt) = 0

\* C12: the scenario's CV gives contact = [Jane Doe, jane@x.com], experience
\* = [Senior Engineer at Acme], education = [BSc Computer Science] and no
\* other non-empty section; and whenever headers were found, a section other
\* than "other" is filled and no header is a contact header, the contact
\* bucket is the non-blank lines that precede the earliest header by index.
C12_ScenarioAndContact ==
    phase = "done" =>
        /\ text = ScenarioText =>
             /\ Bucket(sections, "contact") = <<"Jane Doe", "jane@x.com">>
             /\ Bucket(sections, "experience") = <<"Senior Engineer at Acme">>
             /\ Bucket(sections, "education") = <<"BSc Computer Science">>
             /\ \A k \in DOMAIN sections :
                    k \notin {"contact", "experience", "education"} => sections[k] = <<>>
        /\ \A i \in 1..Len(text) :
             ( /\ IsHeader(text[i])
               /\ \A k \in 1..(i - 1) : ~IsHeader(text[k])
               /\ \A k \in 1..Len(text) : "contact" \notin text[k].kw
               /\ HasMeaningfulSections(Segment(text)) )
             => Bucket(sections, "contact") = Content(text, 1, i)

\* the scenario's CV has been segmented
C12_Witness ==
    /\ phase = "done"
    /\ text = ScenarioText
    /\ Bucket(sections, "contact") = <<"Jane Doe", "jane@x.com">>

\* C13 as stated: the lines of every section bucket are in the relative
\* order of the document: of two different lines of a bucket, the one that
\* comes first in the bucket occurs somewhere in the document before the
\* other one.
C13_DocumentOrder ==
    phase = "done" =>
        \A k \in DOMAIN sections :
            \A p, q \in 1..Len(sections[k]) :
                (p < q /\ sections[k][p] # sections[k][q])
                => \E a, b \in 1..Len(text) :
                       /\ a < b
                       /\ text[a].txt = sections[k][p]
                       /\ text[b].txt = sections[k][q]

FirstN(s, n) == SubSeq(s, 1, IF Len(s) < n THEN Len(s) ELSE n)

\* C14 as stated: when segmentation leaves every section except "other"
\* empty, "contact" is the first at most 10 non-empty lines of the document,
\* blank lines not being counted.
C14_FallbackContact ==
    phase = "done" =>
        (~HasMeaningfulSections(Segment(text))
            => Bucket(sections, "contact") = FirstN(NonBlankTxt(text), FirstLines))

(***************************************************************************)
(* Properties of the match scores.                                         *)
(***************************************************************************)
\* the i-th posting of the chunk went through the scoring loop
Scored(i) == \A k \in 1..i : ~ScoringRaises(chunk_jobs[k])

FoundIn(job) == {keywords[k] : k \in 1..Len(keywords)} \cap job.text

\* C15: for the keyword list and primary keyword of the search, a posting
\* whose text contains every keyword the scored posting's text contains, and
\* possibly more, with the primary keyword found in both or in neither, gets
\* a score at least as high.
C15_Monotone ==
    sphase = "scored" =>
        \A i \in 1..Len(chunk_jobs) :
            Scored(i) =>
                \A t \in JobTexts :
                    LET B == [chunk_jobs[i] EXCEPT !.text = t]
                    IN  ( /\ FoundIn(chunk_jobs[i]) \subseteq FoundIn(B)
                          /\ primary_keyword_match(keywords[1], B)
                               = primary_keyword_match(keywords[1], chunk_jobs[i]) )
                        => new_score(keywords, keywords[1], B) >= chunk_jobs[i].match_score.v

\* a posting without the primary keyword was scored 58 for two keywords of
\* seven; a text with a third keyword is scored higher
C15_Witness ==
    /\ sphase = "scored"
    /\ Len(keywords) = 7
    /\ chunk_jobs[1].text = {"docker", "react"}
    /\ chunk_jobs[1].requirements = "list"
    /\ chunk_jobs[1].match_score = PyInt(58)
    /\ new_score(keywords, keywords[1],
                 [chunk_jobs[1] EXCEPT !.text = {"docker", "react", "aws"}]) = 62

\* the score the claim describes, for a keyword bonus b
ClaimedScore(b, m, n, pm) ==
    LET capped == Least(100, (IF pm THEN 70 ELSE 50) + b)
        weak == IF m < 3 /\ ~pm THEN Least(capped, 60) ELSE capped
    IN  IF 10 * m > 7 * n /\ pm THEN Least(100, weak + 10) ELSE weak

\* the claim about the i-th posting, the bonus being an integer that Near
\* accepts for 30*m/n
ScoreIs(i, Near(_, _, _)) ==
    LET m == Len(matched_keywords(keywords, chunk_jobs[i]))
        n == Len(processed_keywords(keywords))
        pm == primary_keyword_match(keywords[1], chunk_jobs[i])
    IN  n > 0 =>
          \E b \in 0..30 :
              /\ Near(b, m, n)
              /\ chunk_jobs[i].match_score = PyInt(ClaimedScore(b, m, n, pm))

\* b is 30*m/n rounded down
RoundedDown(b, m, n) == b * n <= 30 * m /\ 30 * m < (b + 1) * n

\* b is an integer nearest to 30*m/n (either one when 30*m/n is halfway)
Nearest(b, m, n) == 2 * (b * n - 30 * m) <= n /\ 2 * (30 * m - b * n) <= n

ScenarioScored(i) ==
    ( /\ keywords = <<"python", "docker", "react">>
      /\ chunk_jobs[i].text = {"python", "docker"} )
    => chunk_jobs[i].match_score = PyInt(90)

\* C16 (as amended): for n keywords of which m are found, the score is base
\* (70 if the primary keyword is found, else 50) plus 30*m/n rounded down,
\* capped at 100; then capped at 60 if m < 3 and the primary keyword is
\* absent; then raised by 10 (capped at 100) if m/n > 0.7 and the primary
\* keyword is present.  [python, docker, react] with python and docker found
\* gives 90.
C16_ScoreRoundedDown ==
    sphase = "scored" =>
        \A i \in 1..Len(chunk_jobs) :
            Scored(i) => (ScoreIs(i, RoundedDown) /\ ScenarioScored(i))

\* the scenario's posting has been scored 90
C16_Witness ==
    /\ sphase = "scored"
    /\ keywords = <<"python", "docker", "react">>
    /\ chunk_jobs[1].text = {"python", "docker"}
    /\ chunk_jobs[1].requirements = "list"
    /\ chunk_jobs[1].match_score = PyInt(90)

\* C16 as stated: the same with 30*m/n rounded to the nearest integer.
C16_ScoreRoundedNearest ==
    sphase = "scored" =>
        \A i \in 1..Len(chunk_jobs) :
            Scored(i) => (ScoreIs(i, Nearest) /\ ScenarioScored(i))

IsPercentage(x) == x.t = "int" /\ 0 <= x.v /\ x.v <= 100

\* C17 as stated: every posting handed to the callback and to
\* save_document_jobs, and every job event, carries a match_score that is an
\* integer between 0 and 100, whatever the provider sent as score or as
\* requirements.
C17_ScoreIsPercentage ==
    /\ \A i \in 1..Len(handed) : IsPercentage(handed[i].match_score)
    /\ \A i \in 1..Len(events) :
           IsPercentage(events[i].match_score) /\ IsPercentage(events[i].job.match_score)

\* the label the claim describes
ClaimedLabel(score) ==
    IF ToInt(score).ok
    THEN (IF ToInt(score).v >= 90 THEN "excellent"
          ELSE IF ToInt(score).v >= 75 THEN "good"
          ELSE IF ToInt(score).v >= 60 THEN "moderate"
          ELSE "low")
    ELSE "unknown"

\* C18 as stated: get_match_quality_label returns a label for every score,
\* the one of the thresholds 90, 75, 60 when int(score) exists and "unknown"
\* when it does not; and the match_quality of every job event is the label
\* of the event's match_score.
C18_LabelTotal ==
    /\ sphase = "labelled" => label = ClaimedLabel(score_in)
    /\ \A i \in 1..Len(events) :
           events[i].match_quality = ClaimedLabel(events[i].match_score)

(***************************************************************************)
(* Properties of text extraction and upload.                               *)
(***************************************************************************)
\* C19 as stated: for each supported file type, extract_text on a zero-byte
\* file ends in an error; it does not return the empty string as its result.
C19_EmptyFileIsError ==
    (request.call = "extract_text" /\ request.file.bytes = "empty") =>
        /\ ~extracted.ok
        /\ ~(extracted.ok /\ extracted.text = "")

\* the file is unreadable, empty, of unsupported format or without text
Rejectable(f) ==
    \/ f.ext \notin allowed_extensions
    \/ f.bytes \in {"unreadable", "empty", "corrupt", "notext"}

\* C20: an upload with parsing enabled of a file that is unreadable, empty,
\* of unsupported format or without extractable text is answered with a
\* failure response and adds no document to the store; and no document of
\* the store holds content parsed from a file.
C20_BadUploadRejected ==
    /\ [](\A i \in 1..Len(documents) : documents[i].content = "none")
    /\ [][(/\ request'.call = "upload"
           /\ ~request'.skip_parsing
           /\ Rejectable(request'.file))
          => (/\ ~response'.success
              /\ response'.status >= 400
              /\ documents' = documents)]_vars

\* an image-only PDF was uploaded with parsing enabled and rejected, the
\* store holding the document of an earlier upload
C20_Witness ==
    /\ request = [call |-> "upload", file |-> [ext |-> ".pdf", bytes |-> "notext"],
                  skip_parsing |-> FALSE]
    /\ response = Response(400, FALSE)
    /\ Len(documents) = 1

(***************************************************************************)
(* Claims about analyze_cv (SpecAnalysis).                                 *)
(***************************************************************************)
\* the provider was not reached, refused the request, or its answer holds
\* no JSON text
ServiceFailed ==
    \/ ~api_key
    \/ replies[1].kind \in {"timeout", "connection_error", "garbled"}
    \/ replies[1].status # 200
    \/ replies[1].content.form \in {"prose", "empty"}

\* C21 as stated: for a CV text that is not empty, analyze_cv returns an
\* analysis record, never None; when the provider is unavailable, refuses
\* the request (no key, a status other than 200) or answers with text that
\* cannot be parsed, the record is the fallback's and is flagged so.
C21_AlwaysAnAnalysis ==
    (aphase = "done" /\ cv_content.s = "text") =>
        /\ analysis.returned = "record"
        /\ ServiceFailed => analysis.record["analysis_method"] = JStr("fallback")

\* perplexity_api.py:18-27 and 165: the fields every analysis record has
ExpectedFields == SchemaFields \cup {"analyzed_at"}

\* the provider answered 200 with a completion that holds a JSON object
ApiObject == replies[1].kind = "response" /\ replies[1].status = 200
                 /\ replies[1].content.form = "object"

\* C22 as stated: every record analyze_cv returns holds all expected fields,
\* and a field for which the provider's JSON object supplied a value holds
\* that value.
C22_AllFieldsApiFirst ==
    (aphase = "done" /\ analysis.returned = "record") =>
        /\ \A k \in ExpectedFields : analysis.record[k] # JMissing
        /\ ApiObject =>
              \A k \in SchemaFields :
                  replies[1].content.obj[k] # JMissing
                      => analysis.record[k] = replies[1].content.obj[k]

(***************************************************************************)
(* Claims about the store (SpecStore).                                     *)
(***************************************************************************)
\* C23 as stated: at every step of write_db the file db.json exists and
\* holds a complete collection, the previous one or the new one, and no
\* reader is ever given the default of a store that is missing.
C23_AtomicReplace ==
    /\ db_file.exists
    /\ last_read # "default"

\* the change an operation of a caller makes is in the collection
InStore(c, db) ==
    CASE c.op = "add_document" -> Has(db.documents, c.doc)
      [] c.op = "save_document_keywords" -> Has(db.documents_keywords, c.doc)
      [] c.op = "save_document_jobs" -> Has(db.documents_jobs, c.doc)
      [] OTHER -> TRUE

Saving == {"add_document", "save_document_keywords", "save_document_jobs"}

\* C24 as stated: when two adding or saving operations for different
\* documents have run concurrently, their steps interleaved in any order,
\* and no write to the disk failed, the store holds the change of both.
C24_NoLostUpdate ==
    (/\ \A p \in Callers : callers[p].stage = "done" /\ callers[p].op \in Saving
     /\ callers[1].doc # callers[2].doc
     /\ ~write_error)
        => /\ db_file.exists
           /\ \A p \in Callers : InStore(callers[p], db_file.data)

\* C25 as stated: an operation during which write_db failed does not
\* return a success result.
C25_FailsVisibly ==
    \A p \in Callers :
        (callers[p].stage = "done" /\ callers[p].wfailed)
            => callers[p].ret \notin {"record", "True"}

\* C26 as stated: after delete_document(d) has returned True, with no other
\* operation running and no failed write, the store holds no document, no
\* keywords record and no job record of d, and the records of every other
\* document are as they were.
C26_DeleteRemovesAll ==
    \A p \in Callers :
        (/\ callers[p].stage = "done" /\ callers[p].op = "delete_document"
         /\ callers[p].ret = "True"
         /\ \A q \in Callers \ {p} : callers[q].stage = "idle"
         /\ ~write_error)
            => LET d == callers[p].doc
               IN  /\ db_file.exists
                   /\ db_file.data = Db(Without(first_db.documents, d),
                                        Without(first_db.documents_keywords, d),
                                        Without(first_db.documents_jobs, d))

(***************************************************************************)
(* Claims about the end of a stream session (SpecLoop).                    *)
(***************************************************************************)
\* the loop of the generator was left because search_complete was set: not
\* by the overall timeout, not by an exception while a posting was pulled;
\* and the provider reported no error
EndedBySignal ==
    /\ out.finals = 1
    /\ out.timeouts = 0
    /\ jobs_found = Len(emitted)
    /\ ~hist.providerError

\* C27 as stated: when the session has ended by the completion signal, no
\* put the callback scheduled is still waiting, and every posting put on
\* the queue was emitted as a job event.
C27_QueuedAllDelivered ==
    EndedBySignal =>
        /\ pending = <<>>
        /\ \A i \in 1..Len(enq) : SeqCount(emitted, enq[i]) >= 1

\* C28 as stated: the final event has status `error` only if the provider
\* reported an error; a search that signals completion with is_complete
\* true and no error ends with the final event `completed`.
C28_CleanCompletion ==
    (out.finals = 1 /\ ~hist.providerError) => out.status = "completed"

(***************************************************************************)
(* Claim about the provider's score (SpecScores).                          *)
(***************************************************************************)
SameText(a, b) == a.text = b.text /\ a.requirements = b.requirements

\* C30 as stated: after _calculate_match_scores two postings with the same
\* text have the same score, whatever match_score the provider gave them.
C30_ScoreFromTextOnly ==
    sphase = "scored" =>
        \A i, j \in 1..Len(chunk_jobs) :
            SameText(chunk_jobs[i], chunk_jobs[j])
                => chunk_jobs[i].match_score = chunk_jobs[j].match_score

(***************************************************************************)
(* Claim about the segmentation without headers (SpecSections).            *)
(***************************************************************************)
\* extract_sections took the branch of section_extractor.py:126-147
NoHeaderPath == phase = "done" /\ PotentialHeaders(text, 1) = <<>>

\* C29: when no line of the text scores 3 or more, no line holds a section
\* pattern, "other" holds every non-blank line in the order of the text,
\* and the segmentation creates no other section (a "contact" key can only
\* come from the check of lines 149-155 that follows).
C29_NoHeaderAllOther ==
    NoHeaderPath =>
        /\ \A i \in 1..Len(text) : text[i].kw = {}
        /\ Segment(text) = [k \in {"other"} |-> Content(text, 1, Len(text) + 1)]
        /\ sections["other"] = Content(text, 1, Len(text) + 1)
        /\ DOMAIN sections \subseteq {"other", "contact"}

\* a text of three lines without header, one of them blank, has been
\* segmented
C29_Witness ==
    /\ NoHeaderPath
    /\ Len(text) = 3
    /\ text[2] = Blank
    /\ sections["other"] = <<"jane@x.com", "Jane Doe">>

====
